---- MODULE Spec2Model ----
\* Editing session of the video client: the timeline of filter intervals
\* (App component, timeline handlers) and the processing-job lifecycle
\* (handleProcessVideo, connectToProgressStream and the stream callbacks).
EXTENDS FiniteSets, Integers, Sequences, TLC

\* ------------------------------------------------------------------ bounds
MaxTime == 10       \* longest source duration, and latest playback time
MaxItems == 2       \* longest timeline explored with every edit operation
MaxStack == 3       \* longest timeline explored without resize
MaxAdds == 4        \* ids handed out by generateId
MaxEdits == 2       \* adds made where every edit operation is explored
MaxJobs == 2        \* start requests sent in one session

\* ------------------------------------------------------- program constants
DefaultSpan == 5    \* handleAddFilterToTimeline: endTime = startTime + 5

\* playback times and durations: the start, one default span in, the end
Times == {0, DefaultSpan, MaxTime}
Jobs == 1..MaxJobs
NoJob == 0

Filters == {"grayscale", "sepia"}

VARIABLES
    \* --- player hook state (useVideoPlayer)
    currentTime, duration,
    \* --- timeline state (App)
    timelineItems, appliedFilters, nextId, lsTimeline,
    \* --- session state (App)
    currentVideo, processingStatus, processedVideo, processingError,
    progressData, eventSourceRef, hasPreviews,
    \* --- EventSource objects, handler invocations, backend
    es, inv, fetch,
    \* --- calls of the job client made outside handleProcessVideo
    cancelled,
    \* --- history
    lastProgress, terminal, lastEvent

playerVars == <<currentTime, duration>>
timelineVars == <<timelineItems, appliedFilters, nextId, lsTimeline>>
sessionVars == <<currentVideo, processingStatus, processedVideo, processingError,
                 progressData, eventSourceRef, hasPreviews>>
jobVars == <<es, inv, fetch>>
clientVars == <<cancelled>>
histVars == <<lastProgress, terminal, lastEvent>>
vars == <<playerVars, timelineVars, sessionVars, jobVars, clientVars, histVars>>

\* --------------------------------------------------------- stream messages
Absent == 0 - 1     \* a field the JSON object does not carry

\* progressData: null, undefined, or the payload object of a progress message
NullProgress == [tag |-> "null", current |-> Absent, total |-> Absent, percentage |-> Absent]
UndefinedProgress == [tag |-> "undefined", current |-> Absent, total |-> Absent, percentage |-> Absent]
Payloads ==
    {[tag |-> "data", current |-> 10, total |-> 100, percentage |-> Absent],
     [tag |-> "data", current |-> 20, total |-> 100, percentage |-> 20]}

StatusValues == {"running", "complete", "failed"}
ErrorTexts == {"", "backend error"}

\* event.data of one server-sent event: text that may fail JSON.parse, else an
\* object with an optional type tag and an optional data member
Messages ==
    {[json |-> FALSE, type |-> "none", hasData |-> FALSE, data |-> NullProgress,
      status |-> "running", error |-> ""]}
    \cup {[json |-> TRUE, type |-> ty, hasData |-> FALSE, data |-> NullProgress,
           status |-> "running", error |-> ""] :
          ty \in {"none", "other", "progress", "status"}}
    \cup {[json |-> TRUE, type |-> "progress", hasData |-> TRUE, data |-> p,
           status |-> "running", error |-> ""] : p \in Payloads}
    \cup {[json |-> TRUE, type |-> "status", hasData |-> TRUE, data |-> NullProgress,
           status |-> st, error |-> e] : st \in StatusValues, e \in ErrorTexts}

\* a message the stream contract calls well formed
WellFormed(msg) == msg.json /\ msg.type \in {"progress", "status"} /\ msg.hasData

\* ------------------------------------------------------------ job client
\* what one backend exchange turns out to be: whether fetch resolves, the
\* HTTP status, and the body of the response
NetOutcomes == {"ok", "TypeErrorFetch", "TypeError", "AbortError"}
HttpStatuses == {200, 400, 404, 418, 500}
Bodies == {"object", "objectWithError", "null", "text"}
Exchanges == [net : NetOutcomes, status : HttpStatuses, body : Bodies]

\* the completion of an async function: a returned ApiResponse or a rejection
Return(success, error) == [kind |-> "return", success |-> success, error |-> error]
Throw(error) == [kind |-> "throw", success |-> FALSE, error |-> error]
NoCall == [kind |-> "none", success |-> FALSE, error |-> ""]

\* getErrorMessage(error, statusCode); statusCode 0 stands for an absent one
getErrorMessage(error, statusCode) ==
    CASE error = "TypeErrorFetch" ->
           "Unable to communicate with server. Please check if the server is running."
      [] error = "TypeError" -> "Network error. Please check your connection."
      [] error = "AbortError" -> "Request timeout. The server took too long to respond."
      [] statusCode = 400 -> "Invalid request. Please check your input."
      [] statusCode = 404 -> "Resource not found. The requested item does not exist."
      [] statusCode >= 500 /\ statusCode < 600 ->
           "Server error. The server is experiencing issues. Please try again later."
      [] statusCode # 0 -> "Server error (418). Please try again."
      [] error = "SyntaxError" -> "Unexpected token in JSON"
      [] OTHER -> "An unexpected error occurred. Please try again."

\* the body of cancelJob's try block
cancelJobTry(x) ==
    IF x.net # "ok" THEN Throw(x.net)
    ELSE IF ~(x.status >= 200 /\ x.status < 300)
    THEN \* inner try: response.json() or errorData.error may throw, caught
         Return(FALSE, IF x.body = "objectWithError" THEN "backend error"
                       ELSE getErrorMessage("Error", x.status))
    ELSE IF x.body = "text" THEN Throw("SyntaxError")
    ELSE Return(TRUE, "")

\* cancelJob without its catch block
cancelJob_NoCatch(x) == cancelJobTry(x)

\* cancelJob(jobId) against a backend that answers with exchange x
cancelJob(x) ==
    LET r == cancelJobTry(x)
    IN IF r.kind = "throw" THEN Return(FALSE, getErrorMessage(r.error, 0)) ELSE r

\* ------------------------------------------------------------ pure helpers
Min(a, b) == IF a <= b THEN a ELSE b
Max(a, b) == IF a >= b THEN a ELSE b

\* FILTERS.find((f) => f.id === item.filterId)?.cssFilter || ''
CssFilter(filterId) ==
    CASE filterId = "grayscale" -> "grayscale(100%)"
      [] filterId = "sepia" -> "sepia(100%)"
      [] OTHER -> ""

\* generateId(): a fresh id per call; n is the number of ids handed out so far
GenerateId(n) == n + 1

\* timelineItems.filter(currentTime >= item.startTime && currentTime <= item.endTime)
ActiveItems(t, items) ==
    SelectSeq(items, LAMBDA item : t >= item.startTime /\ t <= item.endTime)

\* the effects of the active intervals listed newest first
ActiveFilters_NewestFirst(t, items) ==
    LET act == ActiveItems(t, items)
        css == [i \in 1..Len(act) |-> CssFilter(act[Len(act) + 1 - i].filterId)]
    IN SelectSeq(css, LAMBDA s : s # "")

\* .map(item => cssFilter || '').filter(Boolean)
ActiveFilters(t, items) ==
    LET act == ActiveItems(t, items)
        css == [i \in 1..Len(act) |-> CssFilter(act[i].filterId)]
    IN SelectSeq(css, LAMBDA s : s # "")

\* a filter that also drops the intervals added before the named one
RemoveItem_DropsEarlier(items, id) == SelectSeq(items, LAMBDA item : item.id > id)

\* VideoPlayer: filters.join(' '), the value of the CSS filter property
RECURSIVE Join(_)
Join(filters) ==
    IF Len(filters) = 0 THEN ""
    ELSE IF Len(filters) = 1 THEN filters[1]
    ELSE filters[1] \o " " \o Join(Tail(filters))

\* items.filter((item) => item.id !== id)
RemoveItem(items, id) == SelectSeq(items, LAMBDA item : item.id # id)

\* a map that rewrites every interval, whatever id is named
UpdateItem_Every(items, id, startTime, endTime) ==
    [i \in 1..Len(items) |->
        [items[i] EXCEPT !.startTime = startTime, !.endTime = endTime]]

\* items.map((item) => item.id === id ? { ...item, startTime, endTime } : item)
UpdateItem(items, id, startTime, endTime) ==
    [i \in 1..Len(items) |->
        IF items[i].id = id
        THEN [items[i] EXCEPT !.startTime = startTime, !.endTime = endTime]
        ELSE items[i]]

\* the new item of handleAddFilterToTimeline
NewItem(items, n, filterId, t, d) ==
    [id |-> GenerateId(n), filterId |-> filterId,
     startTime |-> t, endTime |-> Min(t + DefaultSpan, d),
     layer |-> Len(items)]

\* JSON.stringify(timelineItems): the text kept under 'overlap-timeline-items',
\* an array of objects whose numbers are written as number literals
JSONstringify(items) ==
    [i \in 1..Len(items) |->
        [id |-> items[i].id, filterId |-> items[i].filterId,
         startTime |-> [lit |-> items[i].startTime],
         endTime |-> [lit |-> items[i].endTime],
         layer |-> [lit |-> items[i].layer]]]

\* savedTimeline ? JSON.parse(savedTimeline) : []
JSONparse(text) ==
    [i \in 1..Len(text) |->
        [id |-> text[i].id, filterId |-> text[i].filterId,
         startTime |-> text[i].startTime.lit, endTime |-> text[i].endTime.lit,
         layer |-> text[i].layer.lit]]

\* ------------------------------------------------------------------- Init

Init ==
    /\ currentTime = 0
    /\ duration = 0
    /\ timelineItems = <<>>
    /\ appliedFilters = <<>>
    /\ nextId = 0
    /\ lsTimeline = JSONstringify(<<>>)
    /\ currentVideo = "null"
    /\ processingStatus = "idle"
    /\ processedVideo = NoJob
    /\ processingError = ""
    /\ progressData = NullProgress
    /\ eventSourceRef = NoJob
    /\ hasPreviews = FALSE
    /\ es = [j \in Jobs |-> "none"]
    /\ inv = [j \in Jobs |-> "none"]
    /\ fetch = [j \in Jobs |-> "none"]
    /\ cancelled = [j \in Jobs |-> NoCall]
    /\ lastProgress = NullProgress
    /\ terminal = [j \in Jobs |-> FALSE]
    /\ lastEvent = [kind |-> "init", job |-> NoJob]

\* the history entry of a step that is not part of a job's lifecycle
UserEvent == [kind |-> "user", job |-> NoJob]

\* ------------------------------------------------------- timeline actions
\* the effects with a persistence effect that does not run
SetTimeline_NoSave(items, t) ==
    /\ timelineItems' = items
    /\ appliedFilters' = ActiveFilters(t, items)
    /\ lsTimeline' = lsTimeline

\* Every change of timelineItems or currentTime re-runs the two effects:
\* the applied-filters effect and the localStorage save.
SetTimeline(items, t) ==
    /\ timelineItems' = items
    /\ appliedFilters' = ActiveFilters(t, items)
    /\ lsTimeline' = JSONstringify(items)

\* controls.seek(time): the hook stores the requested time as given
seek(t) ==
    /\ currentVideo # "null"
    /\ currentTime' = t
    /\ appliedFilters' = ActiveFilters(t, timelineItems)
    /\ lastEvent' = UserEvent
    /\ UNCHANGED clientVars
    /\ UNCHANGED <<duration, timelineItems, nextId, lsTimeline, sessionVars,
                   jobVars, lastProgress, terminal>>

\* VideoTimeline.handleTimelineClick, the one caller of seek: ignored until a
\* duration is known; the clicked time is clamped into [0, duration]
handleTimelineClick(time) ==
    /\ duration > 0
    /\ seek(Max(0, Min(duration, time)))

\* loadedmetadata / durationchange: the hook copies video.duration and keeps
\* the currentTime it holds (a newly mounted element fires no timeupdate)
handleDurationChange(d) ==
    /\ currentVideo # "null"
    /\ d # duration
    /\ duration' = d
    /\ lastEvent' = UserEvent
    /\ UNCHANGED clientVars
    /\ UNCHANGED <<currentTime, timelineVars, sessionVars, jobVars, lastProgress, terminal>>

handleAddFilterToTimeline(filterId) ==
    /\ currentVideo # "null"
    /\ nextId < MaxAdds
    /\ SetTimeline(Append(timelineItems,
                          NewItem(timelineItems, nextId, filterId, currentTime, duration)),
                   currentTime)
    /\ nextId' = nextId + 1
    /\ lastEvent' = UserEvent
    /\ UNCHANGED clientVars
    /\ UNCHANGED <<playerVars, sessionVars, jobVars, lastProgress, terminal>>

handleRemoveFilterFromTimeline(id) ==
    /\ SetTimeline(RemoveItem(timelineItems, id), currentTime)
    /\ lastEvent' = UserEvent
    /\ UNCHANGED clientVars
    /\ UNCHANGED <<playerVars, nextId, sessionVars, jobVars, lastProgress, terminal>>

handleUpdateFilterInTimeline(id, startTime, endTime) ==
    /\ SetTimeline(UpdateItem(timelineItems, id, startTime, endTime), currentTime)
    /\ lastEvent' = UserEvent
    /\ UNCHANGED clientVars
    /\ UNCHANGED <<playerVars, nextId, sessionVars, jobVars, lastProgress, terminal>>

\* two edit handlers called from one render, as one event handler that calls
\* both props does: each computes its new list from the timelineItems its
\* closure holds, and of the two values passed to setTimelineItems the one
\* queued last is the state of the next render
BatchEvent == [kind |-> "userBatch", job |-> NoJob]

RemoveThenRemove(first, second) ==
    /\ SetTimeline(RemoveItem(timelineItems, second), currentTime)
    /\ lastEvent' = BatchEvent
    /\ UNCHANGED clientVars
    /\ UNCHANGED <<playerVars, nextId, sessionVars, jobVars, lastProgress, terminal>>

RemoveThenResize(removed, id, startTime, endTime) ==
    /\ SetTimeline(UpdateItem(timelineItems, id, startTime, endTime), currentTime)
    /\ lastEvent' = BatchEvent
    /\ UNCHANGED clientVars
    /\ UNCHANGED <<playerVars, nextId, sessionVars, jobVars, lastProgress, terminal>>

\* ----------------------------------------------------- session: the video
\* handleVideoUpload(video): the backend's upload record becomes the current
\* video; for a video that has a video_id the filter previews are requested
\* and, when that request succeeds, stored
handleVideoUpload(video, previewsOk) ==
    /\ currentVideo' = video
    /\ hasPreviews' = (IF video = "withId" /\ previewsOk THEN TRUE ELSE hasPreviews)
    /\ lastEvent' = UserEvent
    /\ UNCHANGED clientVars
    /\ UNCHANGED <<playerVars, timelineVars, processingStatus, processedVideo,
                   processingError, progressData, eventSourceRef,
                   jobVars, lastProgress, terminal>>

\* the Clear Video button (rendered while there is a current video)
ClearVideo ==
    /\ currentVideo # "null"
    /\ currentVideo' = "null"
    /\ processedVideo' = NoJob
    /\ processingStatus' = "idle"
    /\ processingError' = ""
    /\ SetTimeline(<<>>, currentTime)
    /\ hasPreviews' = FALSE
    /\ lastEvent' = UserEvent
    /\ UNCHANGED clientVars
    /\ UNCHANGED <<playerVars, nextId, progressData, eventSourceRef,
                   jobVars, lastProgress, terminal>>

\* a page reload: the App is constructed again; the timeline comes back from
\* localStorage and is saved again by the mount run of the persistence effect,
\* the current video comes back from its own key (written on every change),
\* every other piece of state starts over, and the page's connections and
\* pending handlers are gone
Reload ==
    /\ currentTime' = 0
    /\ duration' = 0
    /\ SetTimeline(JSONparse(lsTimeline), 0)
    /\ processingStatus' = "idle"
    /\ processedVideo' = NoJob
    /\ processingError' = ""
    /\ progressData' = NullProgress
    /\ eventSourceRef' = NoJob
    /\ hasPreviews' = FALSE
    /\ es' = [j \in Jobs |-> IF es[j] = "open" THEN "closed" ELSE es[j]]
    /\ inv' = [j \in Jobs |-> IF inv[j] = "awaitStart" THEN "done" ELSE inv[j]]
    /\ fetch' = [j \in Jobs |-> IF fetch[j] = "pending" THEN "done" ELSE fetch[j]]
    /\ lastProgress' = NullProgress
    /\ lastEvent' = [kind |-> "reload", job |-> NoJob]
    /\ UNCHANGED clientVars
    /\ UNCHANGED <<nextId, currentVideo, terminal>>

\* ------------------------------------------------- session: starting a job
\* the next handleProcessVideo invocation; its job id is its index
NewJobId == Cardinality({j \in Jobs : inv[j] # "none"}) + 1

\* the Process Video button with a disabled prop that forgets the status
ProcessDisabled_IgnoresStatus == currentVideo # "withId"

\* disabled prop of the Process Video button (isUploadingSample, the flag of
\* the sample-video fetch, is left out: no sample upload is in flight here)
ProcessDisabled == processingStatus = "processing" \/ currentVideo # "withId"

\* a start without the video_id precondition
handleProcessVideo_NoIdCheck ==
    /\ NewJobId \in Jobs
    /\ processingStatus' = "processing"
    /\ processingError' = ""
    /\ progressData' = NullProgress
    /\ lastProgress' = NullProgress
    /\ inv' = [inv EXCEPT ![NewJobId] = "awaitStart"]
    /\ lastEvent' = [kind |-> "start", job |-> NewJobId]
    /\ UNCHANGED clientVars
    /\ UNCHANGED <<playerVars, timelineVars, currentVideo, processedVideo,
                   eventSourceRef, hasPreviews, es, fetch, terminal>>

\* a start that also empties the timeline, as Clear Video does
handleProcessVideo_ResetsTimeline ==
    /\ NewJobId \in Jobs
    /\ currentVideo = "withId"
    /\ processingStatus' = "processing"
    /\ processingError' = ""
    /\ progressData' = NullProgress
    /\ lastProgress' = NullProgress
    /\ inv' = [inv EXCEPT ![NewJobId] = "awaitStart"]
    /\ lastEvent' = [kind |-> "start", job |-> NewJobId]
    /\ UNCHANGED clientVars
    /\ SetTimeline(<<>>, currentTime)
    /\ UNCHANGED <<playerVars, nextId, currentVideo, processedVideo,
                   eventSourceRef, hasPreviews, es, fetch, terminal>>

\* handleProcessVideo up to its first await
handleProcessVideo ==
    /\ NewJobId \in Jobs
    /\ IF currentVideo # "withId"
       THEN /\ processingError' = "No video ID available for processing"
            /\ processingStatus' = "error"
            /\ lastEvent' = [kind |-> "startNoId", job |-> NoJob]
            /\ UNCHANGED clientVars
            /\ UNCHANGED <<progressData, inv, lastProgress, terminal>>
       ELSE /\ processingStatus' = "processing"
            /\ processingError' = ""
            /\ progressData' = NullProgress
            /\ lastProgress' = NullProgress
            /\ inv' = [inv EXCEPT ![NewJobId] = "awaitStart"]
            /\ lastEvent' = [kind |-> "start", job |-> NewJobId]
            /\ UNCHANGED clientVars
    /\ UNCHANGED <<playerVars, timelineVars, currentVideo, processedVideo,
                   eventSourceRef, hasPreviews, es, fetch, terminal>>

\* a click on the Process Video button (rendered while there is a current
\* video and the status is not success); a disabled button runs no handler
ClickProcess ==
    /\ currentVideo # "null"
    /\ processingStatus # "success"
    /\ IF ProcessDisabled
       THEN /\ lastEvent' = [kind |-> "startDisabled", job |-> NoJob]
            /\ lastEvent' # lastEvent
            /\ UNCHANGED <<playerVars, timelineVars, sessionVars, jobVars, clientVars,
                         lastProgress, terminal>>
       ELSE handleProcessVideo

\* a click on the Reprocess button (rendered with the processed video)
ClickReprocess ==
    /\ processedVideo # NoJob
    /\ processingStatus = "success"
    /\ hasPreviews
    /\ handleProcessVideo

\* if (eventSourceRef.current) { eventSourceRef.current.close(); eventSourceRef.current = null }
CloseRef(streams) ==
    IF eventSourceRef = NoJob THEN streams
    ELSE [streams EXCEPT ![eventSourceRef] = "closed"]

\* await startProcessingJob(..) resolves: the rest of handleProcessVideo.
\* outcome: "ok", "rejected" (non-2xx), "network" (fetch throws), "noJobId"
StartResolve(j, outcome) ==
    /\ inv[j] = "awaitStart"
    /\ inv' = [inv EXCEPT ![j] = "done"]
    /\ IF outcome = "ok"
       THEN \* connectToProgressStream(jobId, ..); eventSourceRef.current = eventSource
            /\ es' = [es EXCEPT ![j] = "open"]
            /\ eventSourceRef' = j
            /\ UNCHANGED <<processingStatus, processingError>>
       ELSE /\ processingStatus' = "error"
            /\ processingError' =
                 (CASE outcome = "rejected" -> "Invalid request. Please check your input."
                    [] outcome = "network" -> "Network error. Please check your connection."
                    [] OTHER -> "Failed to start processing")
            /\ UNCHANGED <<es, eventSourceRef>>
    /\ lastEvent' = [kind |-> "startResolved", job |-> j]
    /\ UNCHANGED clientVars
    /\ UNCHANGED <<playerVars, timelineVars, currentVideo, processedVideo, progressData,
                   hasPreviews, fetch, lastProgress, terminal>>

\* ------------------------------------------------- the progress stream
\* onProgress: setProgressData(data); the read of data.preview_url that follows
\* throws when data is missing, after the state update has been queued
onProgress(msg) == IF msg.hasData THEN msg.data ELSE UndefinedProgress

\* the kind of step a delivered message is
MessageKind(msg) == IF WellFormed(msg) THEN msg.type ELSE "malformed"

\* eventSource.onmessage: JSON.parse throws, or the type tag matches no branch,
\* or update.data.status throws on a status message without data
MessageDropped(j, msg) ==
    /\ es[j] = "open"
    /\ ~msg.json \/ msg.type \notin {"progress", "status"}
         \/ (msg.type = "status" /\ ~msg.hasData)
    /\ lastEvent' = [kind |-> "malformed", job |-> j]
    /\ lastEvent' # lastEvent
    /\ UNCHANGED <<playerVars, timelineVars, sessionVars, jobVars, clientVars,
                         lastProgress, terminal>>

\* eventSource.onmessage, update.type === 'progress'
ProgressMessage(j, msg) ==
    /\ es[j] = "open"
    /\ msg.json /\ msg.type = "progress"
    /\ progressData' = onProgress(msg)
    /\ lastProgress' = (IF WellFormed(msg) THEN msg.data ELSE lastProgress)
    /\ lastEvent' = [kind |-> MessageKind(msg), job |-> j]
    /\ UNCHANGED clientVars
    /\ UNCHANGED <<playerVars, timelineVars, currentVideo, processingStatus,
                   processedVideo, processingError, eventSourceRef, hasPreviews,
                   jobVars, terminal>>

\* eventSource.onmessage, update.type === 'status': onStatus up to its await.
\* The backend reports one terminal status per job.
StatusMessage(j, msg) ==
    /\ es[j] = "open"
    /\ msg.json /\ msg.type = "status" /\ msg.hasData
    /\ msg.status \in {"complete", "failed"} => ~terminal[j]
    /\ CASE msg.status = "complete" ->
              \* await getJobStatus(jobId)
              /\ fetch' = [fetch EXCEPT ![j] = "pending"]
              /\ terminal' = [terminal EXCEPT ![j] = TRUE]
              /\ UNCHANGED <<processingStatus, processingError, eventSourceRef, es>>
         [] msg.status = "failed" ->
              /\ processingStatus' = "error"
              /\ processingError' = (IF msg.error # "" THEN msg.error ELSE "Processing failed")
              /\ es' = CloseRef(es)
              /\ eventSourceRef' = NoJob
              /\ terminal' = [terminal EXCEPT ![j] = TRUE]
              /\ UNCHANGED fetch
         [] OTHER ->
              UNCHANGED <<processingStatus, processingError, eventSourceRef, es,
                          fetch, terminal>>
    /\ lastEvent' = [kind |-> "status", job |-> j]
    /\ UNCHANGED clientVars
    /\ UNCHANGED <<playerVars, timelineVars, currentVideo, processedVideo, progressData,
                   hasPreviews, inv, lastProgress>>

\* a completion that marks success and forgets to store the processed video
StatusFetched_KeepsVideo(j, ok) ==
    /\ fetch[j] = "pending"
    /\ fetch' = [fetch EXCEPT ![j] = "done"]
    /\ processingStatus' = (IF ok THEN "success" ELSE processingStatus)
    /\ es' = CloseRef(es)
    /\ eventSourceRef' = NoJob
    /\ lastEvent' = [kind |-> "statusFetched", job |-> j]
    /\ UNCHANGED clientVars
    /\ UNCHANGED <<playerVars, timelineVars, currentVideo, processedVideo, processingError,
                   progressData, hasPreviews, inv, lastProgress, terminal>>

\* await getJobStatus(jobId) resolves: the rest of onStatus for complete
StatusFetched(j, ok) ==
    /\ fetch[j] = "pending"
    /\ fetch' = [fetch EXCEPT ![j] = "done"]
    /\ IF ok
       THEN /\ processingStatus' = "success"
            /\ processedVideo' = j
       ELSE UNCHANGED <<processingStatus, processedVideo>>
    /\ es' = CloseRef(es)
    /\ eventSourceRef' = NoJob
    /\ lastEvent' = [kind |-> "statusFetched", job |-> j]
    /\ UNCHANGED clientVars
    /\ UNCHANGED <<playerVars, timelineVars, currentVideo, processingError, progressData,
                   hasPreviews, inv, lastProgress, terminal>>

\* an onerror that leaves the closing to the callback, which closes the ref
StreamError_ClosesRefOnly(j) ==
    /\ es[j] = "open"
    /\ processingStatus' = "error"
    /\ processingError' = "Unable to communicate with server. The connection was lost."
    /\ es' = CloseRef(es)
    /\ eventSourceRef' = NoJob
    /\ lastEvent' = [kind |-> "streamError", job |-> j]
    /\ UNCHANGED clientVars
    /\ UNCHANGED <<playerVars, timelineVars, currentVideo, processedVideo, progressData,
                   hasPreviews, inv, fetch, lastProgress, terminal>>

\* eventSource.onerror: onError(new Error(..)) then eventSource.close()
StreamError(j) ==
    /\ es[j] = "open"
    /\ processingStatus' = "error"
    /\ processingError' = "Unable to communicate with server. The connection was lost."
    /\ es' = [CloseRef(es) EXCEPT ![j] = "closed"]
    /\ eventSourceRef' = NoJob
    /\ lastEvent' = [kind |-> "streamError", job |-> j]
    /\ UNCHANGED clientVars
    /\ UNCHANGED <<playerVars, timelineVars, currentVideo, processedVideo, progressData,
                   hasPreviews, inv, fetch, lastProgress, terminal>>

\* a caller awaits cancelJob(jobId) and keeps what it resolves to; the App
\* itself has no such caller, and the job client touches no App state
CallCancelJob(j, x) ==
    /\ cancelled' = [cancelled EXCEPT ![j] = cancelJob(x)]
    /\ UNCHANGED <<playerVars, timelineVars, sessionVars, jobVars, histVars>>

\* ------------------------------------------------------- specifications
Videos == {"noId", "withId"}

SessionActions ==
    \/ \E video \in Videos, previewsOk \in BOOLEAN : handleVideoUpload(video, previewsOk)
    \/ ClearVideo

NextJobs ==
    \/ SessionActions
    \/ ClickProcess
    \/ ClickReprocess
    \/ \E j \in Jobs, outcome \in {"ok", "rejected", "network", "noJobId"} :
          StartResolve(j, outcome)
    \/ \E j \in Jobs, msg \in Messages : MessageDropped(j, msg)
    \/ \E j \in Jobs, msg \in Messages : ProgressMessage(j, msg)
    \/ \E j \in Jobs, msg \in Messages : StatusMessage(j, msg)
    \/ \E j \in Jobs, ok \in BOOLEAN : StatusFetched(j, ok)
    \/ \E j \in Jobs : StreamError(j)

\* ids an edit may name: those on the timeline and one that is not
UnknownId == 0
ItemIds(items) == {items[i].id : i \in 1..Len(items)}
EditIds == ItemIds(timelineItems) \cup {UnknownId}

NextTimeline ==
    \/ handleVideoUpload("withId", TRUE)
    \/ ClearVideo
    \/ \E t \in Times : handleTimelineClick(t)
    \/ \E d \in Times : handleDurationChange(d)
    \/ \E f \in Filters :
          Len(timelineItems) < MaxItems /\ nextId < MaxEdits /\ handleAddFilterToTimeline(f)
    \/ \E id \in EditIds : handleRemoveFilterFromTimeline(id)
    \/ \E id \in EditIds, s \in Times, e \in Times :
          handleUpdateFilterInTimeline(id, s, e)
    \/ Reload

\* the edit operations alone, on a player that has not moved
NextEdits ==
    \/ handleVideoUpload("withId", TRUE)
    \/ \E f \in Filters :
          Len(timelineItems) < MaxItems /\ nextId < MaxEdits /\ handleAddFilterToTimeline(f)
    \/ \E id \in EditIds : handleRemoveFilterFromTimeline(id)
    \/ \E id \in EditIds, s \in Times, e \in Times :
          handleUpdateFilterInTimeline(id, s, e)

\* the timeline edited one handler at a time and two handlers at a time
NextBatch ==
    \/ handleVideoUpload("withId", TRUE)
    \/ \E f \in Filters :
          Len(timelineItems) < MaxItems /\ nextId < MaxEdits /\ handleAddFilterToTimeline(f)
    \/ \E id \in EditIds : handleRemoveFilterFromTimeline(id)
    \/ \E id \in EditIds, s \in Times, e \in Times :
          handleUpdateFilterInTimeline(id, s, e)
    \/ \E a \in EditIds, b \in EditIds : RemoveThenRemove(a, b)
    \/ \E a \in EditIds, id \in EditIds, s \in Times, e \in Times :
          RemoveThenResize(a, id, s, e)

\* a session that edits the timeline while its first job runs
NextSession ==
    \/ SessionActions
    \/ NewJobId = 1 /\ ClickProcess
    \/ \E outcome \in {"ok", "rejected", "network", "noJobId"} : StartResolve(1, outcome)
    \/ \E msg \in Messages : MessageDropped(1, msg)
    \/ \E msg \in Messages : ProgressMessage(1, msg)
    \/ \E msg \in Messages : StatusMessage(1, msg)
    \/ \E ok \in BOOLEAN : StatusFetched(1, ok)
    \/ StreamError(1)
    \/ \E f \in Filters :
          Len(timelineItems) < MaxItems /\ nextId < MaxEdits /\ handleAddFilterToTimeline(f)
    \/ \E id \in EditIds : handleRemoveFilterFromTimeline(id)

\* the job client called on its own, against every kind of backend answer
NextClient == \E j \in Jobs, x \in Exchanges : CallCancelJob(j, x)

\* the timeline grown and shrunk at different playback times, no resize
NextLayers ==
    \/ handleVideoUpload("withId", TRUE)
    \/ \E t \in Times : handleTimelineClick(t)
    \/ \E d \in Times : handleDurationChange(d)
    \/ \E f \in Filters : Len(timelineItems) < MaxStack /\ handleAddFilterToTimeline(f)
    \/ \E id \in EditIds : handleRemoveFilterFromTimeline(id)

Next == NextJobs \/ NextTimeline \/ NextBatch \/ NextClient

SpecJobs == Init /\ [][NextJobs]_vars
SpecTimeline == Init /\ [][NextTimeline]_vars
SpecEdits == Init /\ [][NextEdits]_vars
SpecBatch == Init /\ [][NextBatch]_vars
SpecClient == Init /\ [][NextClient]_vars
SpecSession == Init /\ [][NextSession]_vars
SpecLayers == Init /\ [][NextLayers]_vars
Spec == Init /\ [][Next]_vars

\* ================================================================ claims
Last(seq) == seq[Len(seq)]

\* C1: at every playback time the active-filter list holds exactly the stored
\* intervals with start <= t <= end, none omitted and none extra, and lists
\* them by ascending insertion layer.
C1_ActiveAtExactByLayer ==
    LET act == ActiveItems(currentTime, timelineItems)
        covering == {i \in 1..Len(timelineItems) :
                        /\ timelineItems[i].startTime <= currentTime
                        /\ currentTime <= timelineItems[i].endTime}
    IN /\ {act[i] : i \in 1..Len(act)} = {timelineItems[i] : i \in covering}
       /\ Len(act) = Cardinality(covering)
       /\ Len(appliedFilters) = Len(act)
       /\ \A i \in 1..Len(act) : appliedFilters[i] = CssFilter(act[i].filterId)
       /\ \A i, j \in 1..Len(act) : i < j => act[i].layer <= act[j].layer

\* C9: every stored interval satisfies 0 <= start < end <= source duration.
C9_IntervalWithinDuration ==
    \A i \in 1..Len(timelineItems) :
        /\ 0 <= timelineItems[i].startTime
        /\ timelineItems[i].startTime < timelineItems[i].endTime
        /\ timelineItems[i].endTime <= duration

\* C10: an add whose end lies before its start stores the two bounds swapped,
\* and a resize with end < start stores them swapped as well.
C10_SwapsReversedBounds ==
    [][/\ \A f \in Filters :
            (handleAddFilterToTimeline(f)
               /\ Min(currentTime + DefaultSpan, duration) < currentTime)
            => /\ Last(timelineItems').startTime = Min(currentTime + DefaultSpan, duration)
               /\ Last(timelineItems').endTime = currentTime
       /\ \A id \in EditIds, st \in Times, en \in Times :
            (handleUpdateFilterInTimeline(id, st, en) /\ en < st)
            => \A i \in 1..Len(timelineItems') :
                  timelineItems'[i].id = id
                  => /\ timelineItems'[i].startTime = en
                     /\ timelineItems'[i].endTime = st
      ]_vars

\* x clamped into [0, d]
Clamp(x, d) == Max(0, Min(x, d))

\* C11: an add stores the bounds it is asked for (the playback time and one
\* default span after it) clamped into [0, duration], whatever the playback
\* time is.
C11_AddClampsBounds ==
    [][\A f \in Filters :
          handleAddFilterToTimeline(f)
          => /\ Last(timelineItems').startTime = Clamp(currentTime, duration)
             /\ Last(timelineItems').endTime = Clamp(currentTime + DefaultSpan, duration)
      ]_vars

\* positions of the stored intervals whose id is not id
OtherPositions(items, id) == {i \in 1..Len(items) : items[i].id # id}

\* C12: removing an id that is not stored leaves the interval list as it was;
\* removing the same id again changes nothing more; every interval with a
\* different id is kept, field for field, in the same relative order.
C12_RemoveIdempotent ==
    [][\A id \in EditIds :
          handleRemoveFilterFromTimeline(id)
          => LET kept == OtherPositions(timelineItems, id)
             IN /\ (id \notin ItemIds(timelineItems) => timelineItems' = timelineItems)
                /\ id \notin ItemIds(timelineItems')
                /\ RemoveItem(timelineItems', id) = timelineItems'
                /\ Len(timelineItems') = Cardinality(kept)
                /\ \A i \in kept :
                      timelineItems'[Cardinality({j \in kept : j <= i})] = timelineItems[i]
      ]_vars

\* a stored id was removed while a later interval stayed: the timeline holds
\* one interval, not the first one added since the timeline was last empty
C12_Witness ==
    /\ Len(timelineItems) = 1
    /\ timelineItems[1].layer = 1

C14_LayersDistinctIncreasing ==
    \A i, j \in 1..Len(timelineItems) :
        i < j => timelineItems[i].layer < timelineItems[j].layer

\* positions of the stored intervals that cover playback time t and whose
\* filter has an effect string
Covering(t, items) ==
    {i \in 1..Len(items) : /\ items[i].startTime <= t /\ t <= items[i].endTime
                           /\ CssFilter(items[i].filterId) # ""}

\* C15: at a playback time inside several stored intervals the applied effects
\* are listed in the order the intervals were added (ids are handed out in
\* that order), at a time inside none the list is empty, and the composed
\* filter string is the effects joined in that order: first-added first.
C15_OverlapFollowsInsertionOrder ==
    LET cov == Covering(currentTime, timelineItems)
        Rank(i) == Cardinality({j \in cov : timelineItems[j].id <= timelineItems[i].id})
        Css(i) == CssFilter(timelineItems[i].filterId)
    IN /\ Len(appliedFilters) = Cardinality(cov)
       /\ \A i \in cov : appliedFilters[Rank(i)] = Css(i)
       /\ cov = {} => Join(appliedFilters) = ""
       /\ \A i, j \in cov :
             (cov = {i, j} /\ timelineItems[i].id < timelineItems[j].id)
             => Join(appliedFilters) = Css(i) \o " " \o Css(j)

\* sepia was added before grayscale and the playback time is inside both
C15_Witness ==
    /\ Len(timelineItems) = 2
    /\ timelineItems[1].filterId = "sepia"
    /\ timelineItems[2].filterId = "grayscale"
    /\ timelineItems[1].id < timelineItems[2].id
    /\ Covering(currentTime, timelineItems) = {1, 2}
    /\ timelineItems[1].startTime < timelineItems[2].startTime
    /\ Join(appliedFilters) = "sepia(100%) grayscale(100%)"

\* ------------------------------------------------------------ job claims
OpenStreams == {j \in Jobs : es[j] = "open"}

\* jobs the session is subscribed to that have reported no terminal status
LiveJobs == {j \in Jobs : es[j] = "open" /\ ~terminal[j]}

\* the session state a job's events write
JobView == <<processingStatus, processedVideo, processingError, progressData>>

\* C2: a start attempted while the session is in Processing is rejected: the
\* status, the job, the stream subscription and the requests sent stay as
\* they were.
C2_StartRejectedWhileProcessing ==
    [][(processingStatus = "processing" /\ (ClickProcess \/ ClickReprocess))
       => UNCHANGED <<JobView, eventSourceRef, es, inv, fetch>>]_vars

C2_Witness ==
    /\ lastEvent.kind = "startDisabled"
    /\ processingStatus = "processing"
    /\ eventSourceRef \in Jobs
    /\ es[eventSourceRef] = "open"

\* C3: in every reachable state at most one job is live and at most one
\* progress stream is open.
C3_SingleLiveJobAndStream ==
    /\ Cardinality(OpenStreams) <= 1
    /\ Cardinality(LiveJobs) <= 1

\* C4: once the handling of a job's terminal status event has begun, no later
\* progress message, status message or connection error on that job's stream
\* changes the progress snapshot, the processing status or the error message.
C4_TerminalEventIsLast ==
    [][\A j \in Jobs :
          (terminal[j] /\ (StreamError(j)
                            \/ \E msg \in Messages : \/ MessageDropped(j, msg)
                                                     \/ ProgressMessage(j, msg)
                                                     \/ StatusMessage(j, msg)))
          => UNCHANGED <<progressData, processingStatus, processingError>>]_vars

C6_RecheckBeforeFailed ==
    [][\A j \in Jobs :
          (processingStatus = "processing" /\ StreamError(j))
          => processingStatus' # "error"]_vars

\* C7: during Processing the progress snapshot is the payload of the most
\* recent well-formed progress message, whole; malformed messages leave it
\* as it was.
C7_SnapshotIsLastWellFormed ==
    processingStatus = "processing" => progressData = lastProgress

\* C8: a message that is not valid JSON, has no or an unknown type tag, or is
\* tagged progress/status without a data payload changes no session state and
\* leaves the stream open.
C8_MalformedDropped ==
    [][\A j \in Jobs, msg \in Messages :
          (~WellFormed(msg) /\ (\/ MessageDropped(j, msg)
                                \/ ProgressMessage(j, msg)
                                \/ StatusMessage(j, msg)))
          => UNCHANGED <<sessionVars, jobVars>>]_vars

\* C16: a complete status received in Processing issues the fetch of the final
\* job status and leaves the session in Processing; when that fetch delivers
\* the payload the session enters Succeeded with the job's output recorded;
\* Succeeded is entered by no other step and never without an output.
C16_CompleteToSucceededWithOutput ==
    [][/\ \A j \in Jobs, msg \in Messages :
            (processingStatus = "processing" /\ msg.status = "complete"
               /\ StatusMessage(j, msg))
            => fetch'[j] = "pending" /\ processingStatus' = "processing"
       /\ \A j \in Jobs :
            (processingStatus = "processing" /\ StatusFetched(j, TRUE))
            => processingStatus' = "success" /\ processedVideo' = j
       /\ processingStatus' = "success" => processedVideo' # NoJob
       /\ (processingStatus # "success" /\ processingStatus' = "success")
            => \E j \in Jobs : /\ fetch[j] = "pending" /\ fetch'[j] = "done"
                                /\ terminal[j] /\ processedVideo' = j
      ]_vars

\* the fetch that followed a complete status has just put the session in
\* Succeeded with that job's output
C16_Witness ==
    /\ processingStatus = "success"
    /\ lastEvent.kind = "statusFetched"
    /\ processedVideo = lastEvent.job
    /\ terminal[lastEvent.job]

\* C17: a failed status received in Processing puts the session in Failed with
\* a non-empty message, the event's error text or else a default, and the
\* stream that delivered it is closed in the same step.
C17_FailedClosesStream ==
    [][\A j \in Jobs, msg \in Messages :
          (processingStatus = "processing" /\ msg.status = "failed"
             /\ StatusMessage(j, msg))
          => /\ processingStatus' = "error"
             /\ processingError' # ""
             /\ msg.error # "" => processingError' = msg.error
             /\ es'[j] = "closed"
      ]_vars

\* job j is no longer the job the session is processing: the session has left
\* Processing, or a later start has been made
LeftProcessing(j) ==
    \/ processingStatus # "processing"
    \/ \E k \in Jobs : k > j /\ inv[k] # "none"

\* C18: a start response or a status response that resolves after the session
\* has left Processing for its job changes neither the processing status nor
\* the output video.
C18_StaleResponseIgnored ==
    [][\A j \in Jobs :
          (LeftProcessing(j)
             /\ (\/ \E ok \in BOOLEAN : StatusFetched(j, ok)
                 \/ \E outcome \in {"ok", "rejected", "network", "noJobId"} :
                       StartResolve(j, outcome)))
          => UNCHANGED <<processingStatus, processedVideo>>]_vars

\* C19: a start from Succeeded moves the session to Processing with the prior
\* output released: no state in Processing still holds a processed video.
C19_ReprocessReleasesOutput ==
    /\ processingStatus = "processing" => processedVideo = NoJob
    /\ \A j \in Jobs : inv[j] = "awaitStart" => processedVideo = NoJob

JobStep ==
    \/ ClickProcess
    \/ ClickReprocess
    \/ \E j \in Jobs :
          \/ \E outcome \in {"ok", "rejected", "network", "noJobId"} : StartResolve(j, outcome)
          \/ \E msg \in Messages : \/ MessageDropped(j, msg)
                                   \/ ProgressMessage(j, msg)
                                   \/ StatusMessage(j, msg)
          \/ \E ok \in BOOLEAN : StatusFetched(j, ok)
          \/ StreamError(j)

\* C21: no step of the job lifecycle changes the stored intervals or their
\* persisted copy; they change only by the user's edit actions.
C21_JobStepsKeepTimeline ==
    [][JobStep => UNCHANGED <<timelineItems, lsTimeline>>]_vars

\* a job has run from start to Succeeded over a timeline that holds intervals
C21_Witness ==
    /\ Len(timelineItems) >= 1
    /\ lastEvent.kind = "statusFetched"
    /\ processingStatus = "success"

\* C22: when the start request fails (network failure, non-success status,
\* or a success envelope without a job id) the session is in Failed with a
\* non-empty message, no progress stream has been opened, and no job is live.
C22_StartFailureEndsFailed ==
    [][\A j \in Jobs, outcome \in {"rejected", "network", "noJobId"} :
          StartResolve(j, outcome)
          => /\ processingStatus' = "error"
             /\ processingError' # ""
             /\ es' = es
             /\ es'[j] = "none"
             /\ LiveJobs' = {}
      ]_vars

\* C23: a connection failure on a job's progress stream closes that stream,
\* and a closed stream is never opened again: no second subscription is made
\* for the same job id.
C23_NoReconnectAfterLoss ==
    [][\A j \in Jobs :
          /\ StreamError(j) => es'[j] = "closed"
          /\ es[j] = "closed" => es'[j] = "closed"
          /\ es'[j] = "open" /\ es[j] # "open"
                => es[j] = "none" /\ inv[j] = "awaitStart" /\ inv'[j] = "done"
      ]_vars

\* the stream of the first job was lost to a connection failure, and a later
\* job has been started since
C23_Witness ==
    /\ lastEvent = [kind |-> "start", job |-> 2]
    /\ es[1] = "closed"
    /\ ~terminal[1]
    /\ fetch[1] = "none"
    /\ processingStatus = "processing"

\* C24: whatever the backend does (success, a non-success status such as 404,
\* a network failure, a body that is not JSON), cancelJob resolves to a result
\* value, never a rejection; a failed one carries a message, and the call
\* leaves the processing status and the error message shown to the user alone.
C24_CancelNeverRaises ==
    [][\A j \in Jobs, x \in Exchanges :
          CallCancelJob(j, x)
          => /\ cancelled'[j].kind = "return"
             /\ ~cancelled'[j].success => cancelled'[j].error # ""
             /\ cancelled'[j].success => x.net = "ok" /\ x.status = 200
             /\ UNCHANGED <<processingStatus, processingError>>
      ]_vars

\* one cancel met a network failure and another a 404 for a finished job
C24_Witness ==
    /\ cancelled[1] = Return(FALSE, getErrorMessage("TypeErrorFetch", 0))
    /\ cancelled[2] = Return(FALSE, getErrorMessage("Error", 404))

\* the steps after which nothing more of a job is awaited: the final
\* job-status fetch of a complete event resolves, or a failed event is delivered
TerminalStep ==
    \/ \E j \in Jobs, ok \in BOOLEAN : StatusFetched(j, ok)
    \/ \E j \in Jobs : terminal'[j] /\ ~terminal[j] /\ fetch'[j] = fetch[j]

\* C25: once a complete or failed status event has been delivered and the
\* final job-status fetch has resolved, with success or with failure, the
\* session has left Processing for Succeeded or Failed.
C25_TerminalLeavesProcessing ==
    [][(processingStatus = "processing" /\ TerminalStep)
          => processingStatus' \in {"success", "error"}]_vars

\* C26: in every reachable state where the session is not in Processing, no
\* progress stream is open and the stream reference of the session is empty.
C26_NoStreamOutsideProcessing ==
    processingStatus # "processing" => (OpenStreams = {} /\ eventSourceRef = NoJob)

\* an event (progress, status or connection error) delivered on the stream of
\* a job after a later job of the session has been started
EarlierJobEvent ==
    \E j \in Jobs :
       /\ \E k \in Jobs : k > j /\ inv[k] # "none"
       /\ \/ StreamError(j)
          \/ \E msg \in Messages : ProgressMessage(j, msg) \/ StatusMessage(j, msg)

\* C27: an event delivered on the stream of an earlier job changes none of
\* the progress snapshot, processing status, error message and output video
\* that belong to the later job.
C27_EarlierStreamIsolated ==
    [][EarlierJobEvent => UNCHANGED JobView]_vars

C29_NoVideoIdFails ==
    [][(handleProcessVideo /\ currentVideo # "withId")
          => /\ processingStatus' = "error"
             /\ processingError' = "No video ID available for processing"
             /\ UNCHANGED <<inv, es, fetch, eventSourceRef>>
      ]_vars

\* Reprocess was clicked for an uploaded video that carries no backend id
C29_Witness ==
    /\ lastEvent.kind = "startNoId"
    /\ currentVideo = "noId"
    /\ processingStatus = "error"
    /\ processingError = "No video ID available for processing"
    /\ OpenStreams = {}

====
